---- MODULE Spec2Model ----
(***************************************************************************)
(* Model of the install pipeline of src/src/main.rs (create_profile and    *)
(* the functions it awaits).  One run of the program is the main task,     *)
(* which is sequential up to download_assets, plus the asset tasks that    *)
(* download_assets spawns on the tokio runtime.  The file system persists  *)
(* from one run to the next; everything else is rebuilt by StartRun.       *)
(*                                                                         *)
(* Every `.unwrap()` of the source is a panic.  A panic of the main task   *)
(* ends the process (pc = "aborted").  A panic inside a spawned task is    *)
(* caught by the runtime: the task's JoinHandle resolves to an error, the  *)
(* task's locals (the semaphore permit among them) are dropped by the      *)
(* unwinding, and the other tasks go on.                                   *)
(*                                                                         *)
(* When the main task panics in the loop of download_assets, the worker    *)
(* threads go on polling the tasks already spawned while the panic unwinds *)
(* (pc = "unwinding"): such a task can still acquire, send its request and *)
(* write its object.  ProcessExit ends the process with whatever tasks are *)
(* unfinished then: they take no further step.                             *)
(*                                                                         *)
(* The environment chooses, for every request, a transport error or a      *)
(* response with a status and a body, for every fs::write of the main task *)
(* one of its three outcomes, and for every create_dir_all success or      *)
(* failure.  The fs::write of an asset task is two steps, File::create and *)
(* write_all, because the tasks run on several worker threads and two of   *)
(* them can write one path at once.                                        *)
(*                                                                         *)
(* Spec is any number of runs on one directory, FairSpec download_assets   *)
(* alone under fair scheduling, FairAssets the same with one more asset    *)
(* than the semaphore has permits, SpecLibs download_libraries alone.      *)
(***************************************************************************)
EXTENDS Naturals, Sequences, FiniteSets, TLC

VARIABLES
    pc,            \* position of the main task
    minecraft_meta,\* the manifest value held by create_profile
    li,            \* download_libraries: index of the current library entry
    assetIndex,    \* download_assets: the entries of asset_index_json["objects"]
    ai,            \* download_assets: index of the current entry of the loop
    handles,       \* download_assets: one record per spawned task
    permits,       \* free permits of the semaphore
    metaFile,      \* ./1.20.4.json
    configFile,    \* instance/LauncherConfig.toml exists
    clientJar,     \* instance/client.jar exists
    libFiles,      \* instance/libraries/<path> exists
    indexFile,     \* instance/assets/indexes/12.json exists
    objects,       \* instance/assets/objects/<prefix>/<hash>
    startExe,      \* instance/start.exe exists
    atStart,       \* history: the object files as they were when the run started
    metaStatus,    \* history: status of the manifest response of this run, 0 if none
    metaRequested, \* history: a GET of the manifest was sent, in this run or an earlier one
    indexFetched,  \* history: this run received an asset index and wrote it to the index path
    returned       \* history: download_assets has returned to create_profile in this run

vars == <<pc, minecraft_meta, li, assetIndex, ai, handles, permits, metaFile,
          configFile, clientJar, libFiles, indexFile, objects, startExe,
          atStart, metaStatus, metaRequested, indexFetched, returned>>

procVars == <<minecraft_meta, li, assetIndex, ai, handles, permits>>
fsVars == <<metaFile, configFile, clientJar, libFiles, indexFile, objects, startExe>>
histVars == <<atStart, metaStatus, metaRequested, indexFetched, returned>>

----------------------------------------------------------------------------
(* Bounds of the model *)

MaxEntries == 2
MaxLibs == 3

(* Semaphore::new(5) *)
SemaphorePermits == 5

----------------------------------------------------------------------------
(* Hashes, paths and URLs *)

\* A hash is a string of hex digits; Hash(1) and Hash(2) share their prefix.
Hash(i) == <<(i + 1) \div 2, 0, i>>

\* The hashes of the asset indexes of Spec: two, so that an index can list
\* distinct hashes and can list one hash under several names.
Hashes == {Hash(1), Hash(2)}

\* One more asset than the semaphore has permits.
WideLen == SemaphorePermits + 1
WideIndex == [i \in 1..WideLen |-> <<Hash(i)>>]
\* The wide index, and the wide index whose last entry has no "hash".
WideIndexes == {WideIndex, [WideIndex EXCEPT ![WideLen] = <<>>]}
AllHashes == Hashes \cup {Hash(i) : i \in 1..WideLen}

\* hash[0..2]
hash_prefix(hash) == SubSeq(hash, 1, 2)

\* objects_path.join(&hash_prefix).join(&hash)
asset_path(hash) == <<hash_prefix(hash), hash>>

\* format!("https://resources.download.minecraft.net/{}/{}", hash_prefix, hash)
asset_url(hash) == <<hash_prefix(hash), hash>>

ObjectPaths == {asset_path(h) : h \in AllHashes}

\* Content of an object file: a kind and the URL the bytes came from.
\*   "full"    the complete body of a 2xx response
\*   "errbody" the complete body of a non-2xx response
\*   "partial" a file that fs::write created and did not finish
\*   "mixed"   bytes of the writes of several tasks: the whole body of no response
Absent == <<"absent", <<>>>>
exists(content) == content[1] # "absent"

\* The bytes of a response: reqwest does not look at the status, .bytes()
\* returns the body of an error response as it does that of a 2xx one.
ResponseBytes(url, status) == <<IF status = 200 THEN "full" ELSE "errbody", url>>

Statuses == {200, 500}

\* fs::write(path, data) of the main task is File::create followed by write_all:
\* it succeeds, fails before the file is created, or fails after.
WriteOutcomes == {"ok", "nocreate", "short"}

\* fs::create_dir_all(path).unwrap()
DirOutcomes == {"ok", "fail"}

\* File::create of fs::write on an object path: the file exists and is empty,
\* whatever it held, or it cannot be created and is left as it was.
file_create(old, url, created) ==
    IF created THEN <<"partial", url>> ELSE old

\* write_all of fs::write on an object path: the files it can leave.  A write
\* that fails leaves a truncated file.  A write that succeeds leaves its data,
\* unless another task wrote the same path meanwhile: each task writes through
\* its own handle from offset 0, and File::create of one truncates under the
\* other, so the file can end as bytes of both.
write_all(data, outcome, shared) ==
    IF outcome = "short" THEN {<<"partial", data[2]>>}
    ELSE IF shared THEN {data, <<"mixed", data[2]>>}
    ELSE {data}

\* fs::write seen through Path::exists.
fs_write_exists(old, outcome) ==
    IF outcome = "nocreate" THEN old ELSE TRUE

----------------------------------------------------------------------------
(* Manifest documents *)

\* The "rules" of a library entry: no key, or a list of rules named by their os.name.
NoRules == [present |-> FALSE, list |-> <<>>]
Rules(list) == [present |-> TRUE, list |-> list]

\* Library entry i of the served manifest: downloads.artifact.path is i and
\* downloads.artifact.url is a string; the entries go through the three kinds
\* of rules in turn.
LibraryEntry(i) ==
    [path |-> i,
     url |-> TRUE,
     rules |-> CASE i % 3 = 1 -> NoRules
                 [] i % 3 = 2 -> Rules(<<"linux", "windows">>)
                 [] i % 3 = 0 -> Rules(<<"windows", "linux">>)]

\* The path of an entry whose downloads.artifact.path is no string.
NoPath == 0

LibPaths == 1..MaxLibs

\* The library lists of the served manifests, and those lists with a last
\* entry that lacks its artifact path or its artifact url.
WellFormedLibLists == {[i \in 1..n |-> LibraryEntry(i)] : n \in 0..MaxLibs}
LibLists ==
    WellFormedLibLists
        \cup {[l EXCEPT ![Len(l)].path = NoPath] : l \in WellFormedLibLists \ {<<>>}}
        \cup {[l EXCEPT ![Len(l)].url = FALSE] : l \in WellFormedLibLists \ {<<>>}}

\* The rule lists of SpecLibs: no key, the empty list, and the lists of one or
\* two rules whose first rule names windows, names linux or has no "os" key.
RuleLists ==
    {NoRules, Rules(<<>>)}
        \cup {Rules(<<os>>) : os \in {"windows", "linux", "none"}}
        \cup {Rules(<<os, next>>) : os \in {"windows", "linux", "none"},
                                    next \in {"windows", "linux"}}

\* Library lists whose entry i has artifact path i and any of the rule lists.
AnyLibLists ==
    UNION {{l \in [1..n -> [path : LibPaths, url : {TRUE}, rules : RuleLists]] :
               \A i \in 1..n : l[i].path = i} : n \in 0..MaxLibs}

NoMeta == [kind |-> "absent", libs |-> <<>>]
ManifestDocs == {[kind |-> "manifest", libs |-> l] : l \in LibLists}
\* A JSON document that is no manifest, such as the body of an error page.
OtherJson == [kind |-> "json", libs |-> <<>>]
PartialMeta == [kind |-> "partial", libs |-> <<>>]

\* library_entry.get("rules").map_or(None, |a| a.get(0)), as a sequence of 0 or 1 rules
first_rule(entry) ==
    IF entry.rules.present /\ Len(entry.rules.list) > 0
    THEN <<entry.rules.list[1]>> ELSE <<>>

\* rules.is_some() && rules.unwrap()["os"]["name"] != "windows"; a rule with
\* no "os" key, written "none", gives Null, which differs from "windows".
skipped_by_rules(entry) ==
    LET rules == first_rule(entry)
    IN  Len(rules) > 0 /\ rules[1] # "windows"

----------------------------------------------------------------------------
(* Asset index documents: the entries of "objects" in key order, each given  *)
(* as v["hash"].as_str(), a sequence of 0 or 1 strings                       *)

\* An entry with no "hash" string, and one whose hash has a single character.
NoHash == <<>>
ShortHash == <<1>>

WellFormedIndexes == UNION {[1..n -> {<<h>> : h \in Hashes}] : n \in 0..MaxEntries}

\* The loop of download_assets ends at the first entry it cannot use, so such
\* an entry is the last one of its index.
Indexes ==
    WellFormedIndexes
        \cup {Append(index, v) : index \in {x \in WellFormedIndexes : Len(x) < MaxEntries},
                                 v \in {NoHash, <<ShortHash>>}}

----------------------------------------------------------------------------
(* Initial state: a fresh working directory, the program just started *)

Init ==
    /\ pc = "start"
    /\ minecraft_meta = NoMeta
    /\ li = 1
    /\ assetIndex = <<>>
    /\ ai = 1
    /\ handles = <<>>
    /\ permits = 0
    /\ metaFile = NoMeta
    /\ configFile = FALSE
    /\ clientJar = FALSE
    /\ libFiles = [p \in LibPaths |-> FALSE]
    /\ indexFile = FALSE
    /\ objects = [p \in ObjectPaths |-> Absent]
    /\ startExe = FALSE
    /\ atStart = [p \in ObjectPaths |-> Absent]
    /\ metaStatus = 0
    /\ metaRequested = FALSE
    /\ indexFetched = FALSE
    /\ returned = FALSE

----------------------------------------------------------------------------
(* get_minecraft_meta *)

\* GetMinecraftMeta that never looks at the cache path.
GetMinecraftMetaNoCache ==
    /\ pc = "start"
    /\ pc' = "metaFetch"
    /\ metaRequested' = TRUE
    /\ UNCHANGED <<procVars, fsVars, atStart, metaStatus, indexFetched, returned>>

\* The cached document exists: read and parse it; it does not: send the GET.
GetMinecraftMeta ==
    /\ pc = "start"
    /\ IF metaFile.kind = "absent"
       THEN /\ pc' = "metaFetch"
            /\ metaRequested' = TRUE
            /\ UNCHANGED minecraft_meta
       ELSE IF metaFile.kind = "partial"
       THEN /\ pc' = "aborted"
            /\ UNCHANGED <<minecraft_meta, metaRequested>>
       ELSE /\ pc' = "profile"
            /\ minecraft_meta' = metaFile
            /\ UNCHANGED metaRequested
    /\ UNCHANGED <<li, assetIndex, ai, handles, permits, fsVars, atStart, metaStatus,
                   indexFetched, returned>>

\* reqwest::get(..).await.unwrap(): a transport error panics.
MetaTransportError ==
    /\ pc = "metaFetch"
    /\ pc' = "aborted"
    /\ UNCHANGED <<procVars, fsVars, histVars>>

\* A response of any status whose body is not JSON: .json().await.unwrap() panics.
MetaBodyNotJson ==
    /\ pc = "metaFetch"
    /\ \E status \in Statuses : metaStatus' = status
    /\ pc' = "aborted"
    /\ UNCHANGED <<procVars, fsVars, atStart, metaRequested, indexFetched, returned>>

\* A response of any status whose body is JSON: written to the cache path and returned.
MetaResponse ==
    /\ pc = "metaFetch"
    /\ \E status \in Statuses, json \in ManifestDocs \cup {OtherJson}, w \in WriteOutcomes :
          /\ metaStatus' = status
          /\ metaFile' = CASE w = "ok" -> json
                           [] w = "nocreate" -> metaFile
                           [] w = "short" -> PartialMeta
          /\ IF w = "ok"
             THEN /\ minecraft_meta' = json
                  /\ pc' = "profile"
             ELSE /\ pc' = "aborted"
                  /\ UNCHANGED minecraft_meta
    /\ UNCHANGED <<li, assetIndex, ai, handles, permits, configFile, clientJar,
                   libFiles, indexFile, objects, startExe, atStart, metaRequested,
                   indexFetched, returned>>

----------------------------------------------------------------------------
(* create_profile, from the return of get_minecraft_meta to download_client, *)
(* with create_config *)

\* Lines 220-231: the instance directory, the fields of the manifest, the config file.
CreateProfile ==
    /\ pc = "profile"
    /\ \E d \in DirOutcomes :
          IF d = "fail"
          THEN \* fs::create_dir_all(instance_directory).unwrap()
               /\ pc' = "aborted"
               /\ UNCHANGED configFile
          ELSE IF minecraft_meta.kind # "manifest"
          THEN \* minecraft_meta["downloads"]["client"]["url"].as_str().unwrap()
               /\ pc' = "aborted"
               /\ UNCHANGED configFile
          ELSE IF configFile
          THEN /\ pc' = "client"
               /\ UNCHANGED configFile
          ELSE \E w \in WriteOutcomes :
               /\ configFile' = fs_write_exists(configFile, w)
               /\ pc' = IF w = "ok" THEN "client" ELSE "aborted"
    /\ UNCHANGED <<procVars, metaFile, clientJar, libFiles, indexFile, objects,
                   startExe, histVars>>

----------------------------------------------------------------------------
(* download_client *)

\* download_client without the exists() check of the jar path.
DownloadClientAlways ==
    /\ pc = "client"
    /\ pc' = "clientFetch"
    /\ li' = 1
    /\ UNCHANGED <<minecraft_meta, assetIndex, ai, handles, permits, fsVars, histVars>>

DownloadClient ==
    /\ pc = "client"
    /\ pc' = IF clientJar THEN "libs" ELSE "clientFetch"
    /\ li' = 1
    /\ UNCHANGED <<minecraft_meta, assetIndex, ai, handles, permits, fsVars, histVars>>

\* A client request whose error is dropped: create_profile goes on.
ClientTransportErrorIgnored ==
    /\ pc = "clientFetch"
    /\ pc' = "libs"
    /\ UNCHANGED <<procVars, fsVars, histVars>>

\* .send().await.unwrap() or .bytes().await.unwrap() panics.
ClientTransportError ==
    /\ pc = "clientFetch"
    /\ pc' = "aborted"
    /\ UNCHANGED <<procVars, fsVars, histVars>>

\* The body of the response, whatever its status, is written to client.jar.
ClientResponse ==
    /\ pc = "clientFetch"
    /\ \E status \in Statuses, w \in WriteOutcomes :
          /\ clientJar' = fs_write_exists(clientJar, w)
          /\ pc' = IF w = "ok" THEN "libs" ELSE "aborted"
    /\ UNCHANGED <<procVars, metaFile, configFile, libFiles, indexFile, objects,
                   startExe, histVars>>

----------------------------------------------------------------------------
(* download_libraries *)

\* One iteration of the loop up to its `continue`, its request or a panic, or
\* the end of the loop.  The path is unwrapped before the rules are read, the
\* url after the existence check.
LibraryStep ==
    /\ pc = "libs"
    /\ IF li > Len(minecraft_meta.libs)
       THEN /\ pc' = "assets"
            /\ UNCHANGED li
       ELSE LET library_entry == minecraft_meta.libs[li]
            IN  IF library_entry.path = NoPath
                THEN \* library_entry["downloads"]["artifact"]["path"].as_str().unwrap()
                     /\ pc' = "aborted"
                     /\ UNCHANGED li
                ELSE IF skipped_by_rules(library_entry) \/ libFiles[library_entry.path]
                THEN /\ li' = li + 1
                     /\ UNCHANGED pc
                ELSE IF ~library_entry.url
                THEN \* library_entry["downloads"]["artifact"]["url"].as_str().unwrap()
                     /\ pc' = "aborted"
                     /\ UNCHANGED li
                ELSE \* fs::create_dir_all(lib_path.parent().unwrap()).unwrap()
                     \E d \in DirOutcomes :
                        /\ pc' = IF d = "ok" THEN "libFetch" ELSE "aborted"
                        /\ UNCHANGED li
    /\ UNCHANGED <<minecraft_meta, assetIndex, ai, handles, permits, fsVars, histVars>>

\* A library request whose error is dropped: the loop goes on to the next entry.
LibraryTransportErrorContinues ==
    /\ pc = "libFetch"
    /\ li' = li + 1
    /\ pc' = "libs"
    /\ UNCHANGED <<minecraft_meta, assetIndex, ai, handles, permits, fsVars, histVars>>

\* send() or bytes() returns Err and the unwrap panics in the main task.
LibraryTransportError ==
    /\ pc = "libFetch"
    /\ pc' = "aborted"
    /\ UNCHANGED <<procVars, fsVars, histVars>>

LibraryResponse ==
    /\ pc = "libFetch"
    /\ \E status \in Statuses, w \in WriteOutcomes :
          LET path == minecraft_meta.libs[li].path
          IN  /\ libFiles' = [libFiles EXCEPT ![path] = fs_write_exists(@, w)]
              /\ IF w = "ok"
                 THEN /\ li' = li + 1
                      /\ pc' = "libs"
                 ELSE /\ pc' = "aborted"
                      /\ UNCHANGED li
    /\ UNCHANGED <<minecraft_meta, assetIndex, ai, handles, permits, metaFile,
                   configFile, clientJar, indexFile, objects, startExe, histVars>>

----------------------------------------------------------------------------
(* download_assets: the asset index *)

\* download_assets that takes the index from the index file when there is one.
DownloadAssetsCached ==
    /\ pc = "assets"
    /\ IF indexFile
       THEN \E index \in Indexes :
               /\ assetIndex' = index
               /\ ai' = 1
               /\ handles' = <<>>
               /\ permits' = SemaphorePermits
               /\ pc' = "assetLoop"
       ELSE /\ \E d \in DirOutcomes : pc' = IF d = "ok" THEN "indexFetch" ELSE "aborted"
            /\ UNCHANGED <<assetIndex, ai, handles, permits>>
    /\ UNCHANGED <<minecraft_meta, li, fsVars, histVars>>

\* Lines 53-59: fs::create_dir_all(&indexes_path).unwrap() and the GET of the asset index.
DownloadAssets ==
    /\ pc = "assets"
    /\ \E d \in DirOutcomes : pc' = IF d = "ok" THEN "indexFetch" ELSE "aborted"
    /\ UNCHANGED <<procVars, fsVars, histVars>>

\* A failed index fetch that goes on to the loop with an index nobody fetched.
IndexFetchErrorProceeds ==
    /\ pc = "indexFetch"
    /\ \E index \in Indexes :
          /\ assetIndex' = index
          /\ ai' = 1
          /\ handles' = <<>>
          /\ permits' = SemaphorePermits
          /\ pc' = "assetLoop"
    /\ UNCHANGED <<minecraft_meta, li, fsVars, histVars>>

\* A transport error, or a body that is not JSON.
IndexFetchError ==
    /\ pc = "indexFetch"
    /\ pc' = "aborted"
    /\ UNCHANGED <<procVars, fsVars, histVars>>

\* A JSON body with no "objects" map: written to the index path, then
\* asset_index_json["objects"].as_object().unwrap() panics.
IndexNotAnIndex ==
    /\ pc = "indexFetch"
    /\ \E status \in Statuses, w \in WriteOutcomes :
          indexFile' = fs_write_exists(indexFile, w)
    /\ pc' = "aborted"
    /\ UNCHANGED <<procVars, metaFile, configFile, clientJar, libFiles, objects,
                   startExe, histVars>>

\* An asset index: written to the index path, then
\* fs::create_dir_all(&objects_path).unwrap(); the semaphore and the handle list are made.
IndexResponse(docs) ==
    /\ pc = "indexFetch"
    /\ \E status \in Statuses, index \in docs, w \in WriteOutcomes, d \in DirOutcomes :
          /\ indexFile' = fs_write_exists(indexFile, w)
          /\ IF w = "ok"
             THEN /\ indexFetched' = TRUE
                  /\ IF d = "ok"
                     THEN /\ assetIndex' = index
                          /\ ai' = 1
                          /\ handles' = <<>>
                          /\ permits' = SemaphorePermits
                          /\ pc' = "assetLoop"
                     ELSE /\ pc' = "aborted"
                          /\ UNCHANGED <<assetIndex, ai, handles, permits>>
             ELSE /\ pc' = "aborted"
                  /\ UNCHANGED <<assetIndex, ai, handles, permits, indexFetched>>
    /\ UNCHANGED <<minecraft_meta, li, metaFile, configFile, clientJar, libFiles,
                   objects, startExe, atStart, metaStatus, metaRequested, returned>>

----------------------------------------------------------------------------
(* download_assets: the loop over the entries and the spawned tasks *)

\* A spawned task: its hash, its position, the status of its response (0: none
\* yet) and, while it writes, the statuses of the responses that other tasks
\* were writing to the same path at the same time.
Task(hash) == [hash |-> hash, st |-> "waiting", status |-> 0, mix |-> {}]

terminal(task) == task.st \in {"ok", "failed"}

\* v["hash"].as_str().unwrap() and hash[0..2] do not panic.
usable(v) == Len(v) = 1 /\ Len(v[1]) >= 2

\* SpawnStep without the existence check: a task for every entry.
SpawnStepNoCheck ==
    /\ pc = "assetLoop"
    /\ IF ai > Len(assetIndex)
       THEN /\ pc' = "join"
            /\ UNCHANGED <<ai, handles>>
       ELSE LET v == assetIndex[ai]
            IN  \E d \in DirOutcomes :
                   IF ~usable(v) \/ d = "fail"
                   THEN /\ pc' = "unwinding"
                        /\ UNCHANGED <<ai, handles>>
                   ELSE /\ handles' = Append(handles, Task(v[1]))
                        /\ ai' = ai + 1
                        /\ UNCHANGED pc
    /\ UNCHANGED <<minecraft_meta, li, assetIndex, permits, fsVars, histVars>>

\* One iteration: the hash and its prefix, the directory of the prefix, the
\* existence check and, for an absent path, tokio::spawn; a panic at one of the
\* unwraps starts the unwinding of the main task, with the tasks spawned so
\* far still on the runtime; after the last entry the main task awaits join_all.
SpawnStep ==
    /\ pc = "assetLoop"
    /\ IF ai > Len(assetIndex)
       THEN /\ pc' = "join"
            /\ UNCHANGED <<ai, handles>>
       ELSE LET v == assetIndex[ai]
            IN  \E d \in DirOutcomes :
                   IF ~usable(v) \/ d = "fail"
                   THEN /\ pc' = "unwinding"
                        /\ UNCHANGED <<ai, handles>>
                   ELSE /\ handles' = IF ~exists(objects[asset_path(v[1])])
                                      THEN Append(handles, Task(v[1]))
                                      ELSE handles
                        /\ ai' = ai + 1
                        /\ UNCHANGED pc
    /\ UNCHANGED <<minecraft_meta, li, assetIndex, permits, fsVars, histVars>>

\* The runtime polls the spawned tasks: while the main task is in the loop or
\* awaits join_all, and while a panic of the main task in the loop unwinds.
running == pc \in {"assetLoop", "join", "unwinding"}

\* The panic of the main task has unwound out of main: the runtime is torn
\* down and the process ends (exit code 101) with the tasks as they are.
ProcessExit ==
    /\ pc = "unwinding"
    /\ pc' = "aborted"
    /\ UNCHANGED <<procVars, fsVars, histVars>>

\* Acquire with a semaphore that hands out a permit without counting it.
AcquireKeepsCount(t) ==
    /\ running
    /\ t \in DOMAIN handles
    /\ handles[t].st = "waiting"
    /\ permits > 0
    /\ permits' = permits
    /\ handles' = [handles EXCEPT ![t].st = "fetching"]
    /\ UNCHANGED <<pc, minecraft_meta, li, assetIndex, ai, fsVars, histVars>>

\* semaphore.acquire().await.unwrap(), then the GET of the asset URL is sent.
Acquire(t) ==
    /\ running
    /\ t \in DOMAIN handles
    /\ handles[t].st = "waiting"
    /\ permits > 0
    /\ permits' = permits - 1
    /\ handles' = [handles EXCEPT ![t].st = "fetching"]
    /\ UNCHANGED <<pc, minecraft_meta, li, assetIndex, ai, fsVars, histVars>>

\* FetchTransportError with a permit that is lost when the task panics.
FetchTransportErrorLeaks(t) ==
    /\ running
    /\ t \in DOMAIN handles
    /\ handles[t].st = "fetching"
    /\ handles' = [handles EXCEPT ![t].st = "failed"]
    /\ UNCHANGED <<pc, permits, minecraft_meta, li, assetIndex, ai, fsVars, histVars>>

\* .send().await.unwrap() or .bytes().await.unwrap() panics: the task ends and
\* the unwinding drops the permit.  The panic message shows the reqwest error,
\* which is taken to name the URL of the request.
FetchTransportError(t) ==
    /\ running
    /\ t \in DOMAIN handles
    /\ handles[t].st = "fetching"
    /\ handles' = [handles EXCEPT ![t].st = "failed"]
    /\ permits' = permits + 1
    /\ UNCHANGED <<pc, minecraft_meta, li, assetIndex, ai, fsVars, histVars>>

\* The other tasks that are between File::create and the end of write_all on the path of t.
writers(t) ==
    {u \in DOMAIN handles \ {t} :
        handles[u].st = "writing" /\ handles[u].hash = handles[t].hash}

\* A response of any status arrived with its body, and fs::write(asset_path, data)
\* begins: File::create truncates the file, also under a task that is writing
\* it, or fails, and then the unwrap panics with the io::Error, which names
\* neither the path nor the hash.
FetchResponse(t) ==
    /\ running
    /\ t \in DOMAIN handles
    /\ handles[t].st = "fetching"
    /\ \E status \in Statuses, created \in BOOLEAN :
          LET hash == handles[t].hash
          IN  /\ objects' = [objects EXCEPT
                                ![asset_path(hash)] = file_create(@, asset_url(hash), created)]
              /\ IF created
                 THEN /\ handles' =
                           [u \in DOMAIN handles |->
                               IF u = t
                               THEN [handles[t] EXCEPT
                                        !.st = "writing",
                                        !.status = status,
                                        !.mix = {handles[x].status : x \in writers(t)}]
                               ELSE IF u \in writers(t)
                               THEN [handles[u] EXCEPT !.mix = @ \cup {status}]
                               ELSE handles[u]]
                      /\ UNCHANGED permits
                 ELSE /\ handles' = [handles EXCEPT ![t].st = "failed", ![t].status = status]
                      /\ permits' = permits + 1
    /\ UNCHANGED <<pc, minecraft_meta, li, assetIndex, ai, metaFile, configFile,
                   clientJar, libFiles, indexFile, startExe, histVars>>

\* write_all ends, with all bytes written or with an error; then drop(permit)
\* and the "downloaded asset" line, or the panic.  The file is the data of this
\* task unless a task with another body wrote the path meanwhile, or a task
\* that truncated it is still writing.
WriteAll(t) ==
    /\ running
    /\ t \in DOMAIN handles
    /\ handles[t].st = "writing"
    /\ \E w \in {"ok", "short"} :
          LET hash == handles[t].hash
              data == ResponseBytes(asset_url(hash), handles[t].status)
              shared == handles[t].mix \ {handles[t].status} # {} \/ writers(t) # {}
          IN  /\ \E content \in write_all(data, w, shared) :
                     objects' = [objects EXCEPT ![asset_path(hash)] = content]
              /\ handles' = [handles EXCEPT
                                ![t].st = IF w = "ok" THEN "ok" ELSE "failed",
                                ![t].mix = {}]
    /\ permits' = permits + 1
    /\ UNCHANGED <<pc, minecraft_meta, li, assetIndex, ai, metaFile, configFile,
                   clientJar, libFiles, indexFile, startExe, histVars>>

\* JoinAll that returns as soon as the loop is over, without awaiting the handles.
JoinAllNoWait ==
    /\ pc = "join"
    /\ pc' = "copy"
    /\ returned' = TRUE
    /\ UNCHANGED <<procVars, fsVars, atStart, metaStatus, metaRequested, indexFetched>>

\* futures::future::join_all(handles).await returns.
JoinAll ==
    /\ pc = "join"
    /\ \A t \in 1..Len(handles) : terminal(handles[t])
    /\ pc' = "copy"
    /\ returned' = TRUE
    /\ UNCHANGED <<procVars, fsVars, atStart, metaStatus, metaRequested, indexFetched>>

----------------------------------------------------------------------------
(* create_profile: fs::copy(current_exe, instance/start.exe) *)

CopyExe ==
    /\ pc = "copy"
    /\ \E w \in WriteOutcomes :
          /\ startExe' = fs_write_exists(startExe, w)
          /\ pc' = IF w = "ok" THEN "done" ELSE "aborted"
    /\ UNCHANGED <<procVars, metaFile, configFile, clientJar, libFiles, indexFile,
                   objects, histVars>>

----------------------------------------------------------------------------
(* The program is started again on the same directory *)

StartRun ==
    /\ pc \in {"done", "aborted"}
    /\ pc' = "start"
    /\ minecraft_meta' = NoMeta
    /\ li' = 1
    /\ assetIndex' = <<>>
    /\ ai' = 1
    /\ handles' = <<>>
    /\ permits' = 0
    /\ atStart' = objects
    /\ metaStatus' = 0
    /\ indexFetched' = FALSE
    /\ returned' = FALSE
    /\ UNCHANGED metaRequested
    /\ UNCHANGED fsVars

----------------------------------------------------------------------------

TaskStep ==
    \E t \in 1..Len(handles) :
        \/ Acquire(t)
        \/ FetchTransportError(t)
        \/ FetchResponse(t)
        \/ WriteAll(t)

\* The steps of one run of the program.
RunNext ==
    \/ GetMinecraftMeta
    \/ MetaTransportError
    \/ MetaBodyNotJson
    \/ MetaResponse
    \/ CreateProfile
    \/ DownloadClient
    \/ ClientTransportError
    \/ ClientResponse
    \/ LibraryStep
    \/ LibraryTransportError
    \/ LibraryResponse
    \/ DownloadAssets
    \/ IndexFetchError
    \/ IndexNotAnIndex
    \/ IndexResponse(Indexes)
    \/ SpawnStep
    \/ TaskStep
    \/ ProcessExit
    \/ JoinAll
    \/ CopyExe

Next ==
    \/ RunNext
    \/ StartRun

Spec == Init /\ [][Next]_vars

(* download_assets alone, on a fresh object store, with an index of WideLen  *)
(* distinct hashes: the state of a first run whose earlier stages succeeded. *)
InitAssets ==
    /\ pc = "indexFetch"
    /\ minecraft_meta = [kind |-> "manifest", libs |-> <<>>]
    /\ li = 1
    /\ assetIndex = <<>>
    /\ ai = 1
    /\ handles = <<>>
    /\ permits = 0
    /\ metaFile = [kind |-> "manifest", libs |-> <<>>]
    /\ configFile = TRUE
    /\ clientJar = TRUE
    /\ libFiles = [p \in LibPaths |-> FALSE]
    /\ indexFile = FALSE
    /\ objects = [p \in ObjectPaths |-> Absent]
    /\ startExe = FALSE
    /\ atStart = [p \in ObjectPaths |-> Absent]
    /\ metaStatus = 200
    /\ metaRequested = TRUE
    /\ indexFetched = FALSE
    /\ returned = FALSE


(* download_libraries alone, in a first run whose earlier stages succeeded, *)
(* on a manifest with any of the library lists of AnyLibLists.              *)
InitLibs ==
    /\ pc = "libs"
    /\ \E l \in AnyLibLists :
          /\ minecraft_meta = [kind |-> "manifest", libs |-> l]
          /\ metaFile = [kind |-> "manifest", libs |-> l]
    /\ li = 1
    /\ assetIndex = <<>>
    /\ ai = 1
    /\ handles = <<>>
    /\ permits = 0
    /\ configFile = TRUE
    /\ clientJar = TRUE
    /\ libFiles = [p \in LibPaths |-> FALSE]
    /\ indexFile = FALSE
    /\ objects = [p \in ObjectPaths |-> Absent]
    /\ startExe = FALSE
    /\ atStart = [p \in ObjectPaths |-> Absent]
    /\ metaStatus = 200
    /\ metaRequested = TRUE
    /\ indexFetched = FALSE
    /\ returned = FALSE

NextLibs ==
    \/ LibraryStep
    \/ LibraryTransportError
    \/ LibraryResponse

SpecLibs == InitLibs /\ [][NextLibs]_vars

(* download_assets alone, on a fresh object store, with any index of Indexes *)
(* and any outcome of every request and write.                               *)
NextDownloadAssets ==
    \/ IndexFetchError
    \/ IndexNotAnIndex
    \/ IndexResponse(Indexes)
    \/ SpawnStep
    \/ TaskStep
    \/ ProcessExit
    \/ JoinAll

(* The runtime runs every task that can take a step, every request that was  *)
(* sent gets a response or an error, and a panic of the main task ends the   *)
(* process.                                                                  *)
FairSpec ==
    /\ InitAssets
    /\ [][NextDownloadAssets]_vars
    /\ WF_vars(SpawnStep)
    /\ WF_vars(ProcessExit)
    /\ WF_vars(JoinAll)
    /\ \A t \in 1..MaxEntries :
          /\ WF_vars(Acquire(t))
          /\ WF_vars(FetchTransportError(t) \/ FetchResponse(t))
          /\ WF_vars(WriteAll(t))

\* FetchResponse for a 2xx response, and WriteAll that writes all bytes: one
\* ending of a task that succeeds and one that panics after its response, at
\* File::create.  The status and a truncated file change the content of the
\* object and nothing else of these steps.
FetchResponse2xx(t) ==
    /\ FetchResponse(t)
    /\ handles'[t].status = 200

WriteAllOk(t) ==
    /\ WriteAll(t)
    /\ handles'[t].st = "ok"

\* download_assets alone with six tasks for the five permits, under the same
\* scheduling: every task that can take a step takes one, and every request
\* ends in an error or in a response.
NextFairAssets ==
    \/ IndexResponse(WideIndexes)
    \/ SpawnStep
    \/ \E t \in 1..Len(handles) :
          \/ Acquire(t)
          \/ FetchTransportError(t)
          \/ FetchResponse2xx(t)
          \/ WriteAllOk(t)
    \/ ProcessExit
    \/ JoinAll

FairAssets ==
    /\ InitAssets
    /\ [][NextFairAssets]_vars
    /\ WF_vars(SpawnStep)
    /\ WF_vars(ProcessExit)
    /\ WF_vars(JoinAll)
    /\ \A t \in 1..WideLen :
          /\ WF_vars(Acquire(t))
          /\ WF_vars(FetchTransportError(t) \/ FetchResponse2xx(t))
          /\ WF_vars(WriteAllOk(t))

----------------------------------------------------------------------------
(* Derived views of a run *)

Tasks == DOMAIN handles
\* Holding a permit: from acquire to the end of the write or the panic.
InFlight == {t \in Tasks : handles[t].st \in {"fetching", "writing"}}
Failed == {t \in Tasks : handles[t].st = "failed"}
Succeeded == {t \in Tasks : handles[t].st = "ok"}

\* Asset URLs requested so far in this run, by the path they are written to.
RequestedPaths == {asset_path(handles[t].hash) : t \in {u \in Tasks : handles[u].st # "waiting"}}

\* Hashes named by the panic messages of failed tasks: those of transport errors.
FailureNamed == {handles[t].hash : t \in {u \in Failed : handles[u].status = 0}}

IndexPaths == {asset_path(assetIndex[i][1]) : i \in {k \in DOMAIN assetIndex : usable(assetIndex[k])}}

\* download_assets has returned to create_profile: also when fs::copy failed afterwards.
Returned == returned

----------------------------------------------------------------------------
(* C1: at most 5 asset tasks hold a permit and have not yet finished their write or failed. *)
C1_InFlightAtMostFive == Cardinality(InFlight) <= 5

C1_Witness ==
    /\ Cardinality(InFlight) = 5
    /\ \E t \in Tasks : handles[t].st = "waiting"

(* C2: within one run no two download tasks have the same hash, so no two tasks write the same object path. *)
C2_OneTaskPerHash ==
    \A s, t \in Tasks : s # t => asset_path(handles[s].hash) # asset_path(handles[t].hash)

(* C3: once a file exists at an object path, no later step writes to that path: no task begins its fs::write, which truncates the file, on a path that exists. *)
C3_NeverOverwrites ==
    [][\A t \in DOMAIN handles \cap DOMAIN handles' :
          (handles[t].st = "fetching" /\ handles'[t].st = "writing") =>
             ~exists(objects[asset_path(handles[t].hash)])]_vars

(* C4: after download_assets has returned, every entry of the asset index has its object in the store or a reported failure that names its hash. *)
C4_EveryEntryAccounted ==
    Returned =>
        \A i \in DOMAIN assetIndex :
            \/ exists(objects[asset_path(assetIndex[i][1])])
            \/ assetIndex[i][1] \in FailureNamed

\* A failed task holds no permit and leaves no sibling behind while the main
\* task is past download_assets; the object of every succeeded task exists.
C5_Safety ==
    /\ \A t \in Tasks : ~terminal(handles[t]) => running \/ pc = "aborted"
    /\ running => permits + Cardinality(InFlight) = SemaphorePermits
    /\ \A t \in Succeeded : exists(objects[asset_path(handles[t].hash)])

C5_Settled ==
    /\ pc = "copy"
    /\ \A t \in Tasks : terminal(handles[t])
    /\ \A t \in Succeeded : exists(objects[asset_path(handles[t].hash)])

(* C5: once an asset task has failed while a sibling is in flight, every spawned task still reaches its terminal state, and the objects of the succeeded tasks are in the store. *)
C5_SiblingsAlwaysFinish ==
    (Failed # {} /\ InFlight # {}) ~>
        /\ \A t \in Tasks : terminal(handles[t])
        /\ \A t \in Succeeded : exists(objects[asset_path(handles[t].hash)])

(* What the code keeps of C5: a failed asset task holds no permit and ends neither the process nor a sibling: the step in which a task fails changes neither the main task nor another task; once a task has failed, either the main task panics in its own loop, which ends the process, or download_assets returns with every task terminal and the object of every succeeded task in the store; once the loop is over the main task can only wait and return. *)
C5_FailureIsolated ==
    /\ [](Failed # {} => C5_Safety)
    /\ [][\A t \in DOMAIN handles \cap DOMAIN handles' :
             (handles[t].st # "failed" /\ handles'[t].st = "failed") =>
                /\ pc' = pc
                /\ \A u \in DOMAIN handles \ {t} : handles'[u].st = handles[u].st]_vars
    /\ [][pc = "join" => pc' \in {"join", "copy"}]_vars
    /\ ((Failed # {} /\ running) ~> (C5_Settled \/ pc = "aborted"))

C5_Witness ==
    /\ pc = "copy"
    /\ \E s, t \in Tasks :
          /\ s < t
          /\ handles[s].st = "failed"
          /\ handles[t].st = "ok"
          /\ exists(objects[asset_path(handles[t].hash)])

(* C6: a library download that fails does not end the run: the loop over the library entries goes on. *)
C6_LibraryFailureIsolated ==
    [][pc = "libFetch" => pc' # "aborted"]_vars

(* C7: whenever download_assets has returned, every asset task it spawned is terminal, and it returns from nowhere but join_all. *)
C7_Barrier ==
    /\ Returned => \A t \in Tasks : terminal(handles[t])
    /\ pc \in {"copy", "done"} => Returned

C7_Witness ==
    /\ pc = "copy"
    /\ Failed # {}
    /\ Succeeded # {}

(* C8: no asset request is made for an object path that existed when the run started and such a file is left as it was; when download_assets has returned, the requested paths are exactly the paths of the index that were absent; a run that starts with every object of its index present creates no task and leaves the store as it was. *)
C8_Idempotent ==
    /\ \A t \in Tasks : ~exists(atStart[asset_path(handles[t].hash)])
    /\ \A p \in ObjectPaths : exists(atStart[p]) => objects[p] = atStart[p]
    /\ Returned => RequestedPaths = {p \in IndexPaths : ~exists(atStart[p])}
    /\ (Returned /\ \A p \in IndexPaths : exists(atStart[p])) =>
          handles = <<>> /\ objects = atStart

C8_Witness ==
    /\ pc = "done"
    /\ \E i, j \in DOMAIN assetIndex : assetIndex[i] # assetIndex[j]
    /\ \A p \in IndexPaths : atStart[p][1] = "full"
    /\ handles = <<>>

(* C9: when download_assets has returned, a task whose fetch got a non-2xx status is a failure, not a success. *)
C9_ServerErrorIsFailure ==
    Returned => \A t \in Tasks : handles[t].status = 500 => handles[t].st = "failed"

(* C10: after a non-2xx manifest response the run sends no client, library or asset request and creates no asset task. *)
C10_FatalManifestStatus ==
    metaStatus = 500 =>
        /\ pc \in {"metaFetch", "profile", "client", "aborted"}
        /\ handles = <<>>

(* C11: as claimed: once the manifest has been requested, no later step requests it again. *)
C11_RequestedAtMostOnce ==
    [][metaRequested => ~(pc = "start" /\ pc' = "metaFetch")]_vars

(* C11: get_minecraft_meta sends no request when the cache file exists and returns the cached document when it parses; when the file is absent it sends the GET, and the document it returns is the one it wrote to the cache path; an existing cache file is never changed, so the manifest is requested only by runs that find no cache file. *)
C11_CacheFirst ==
    [][/\ (pc = "start" /\ metaFile.kind # "absent") => pc' # "metaFetch"
       /\ (pc = "start" /\ metaFile.kind \in {"manifest", "json"}) =>
             pc' = "profile" /\ minecraft_meta' = metaFile
       /\ (pc = "start" /\ metaFile.kind = "absent") => pc' = "metaFetch"
       /\ (pc = "metaFetch" /\ pc' = "profile") =>
             metaFile'.kind # "absent" /\ minecraft_meta' = metaFile'
       /\ metaFile.kind # "absent" => metaFile' = metaFile]_vars

C11_Witness ==
    /\ pc = "profile"
    /\ metaRequested
    /\ metaStatus = 0
    /\ minecraft_meta.kind = "manifest"
    /\ minecraft_meta = metaFile

\* Included as the claim has it: no rule list, or a first rule that names the target.
C12_ClaimIncluded(entry) ==
    \/ ~entry.rules.present
    \/ Len(entry.rules.list) > 0 /\ entry.rules.list[1] = "windows"

(* C12: an entry is requested, and has a file, only if it has no rule list or its first rule names windows; every such entry the loop has passed has its file. *)
C12_PlatformFilter ==
    LET libs == minecraft_meta.libs
    IN  /\ pc = "libFetch" => C12_ClaimIncluded(libs[li])
        /\ \A i \in DOMAIN libs : libFiles[libs[i].path] => C12_ClaimIncluded(libs[i])
        /\ \A i \in DOMAIN libs : (i < li /\ C12_ClaimIncluded(libs[i])) => libFiles[libs[i].path]

(* C13: as claimed: the asset-index fetch has completed successfully before any client, library or asset download is started. *)
C13_IndexBeforeAnyDownload ==
    (pc \in {"clientFetch", "libFetch"} \/ handles # <<>>) => indexFetched

(* C13: the stages run in the order manifest, client, libraries, asset index, assets: an asset task exists only after the index fetch of this run has succeeded; the index is fetched only after the client and library stages are over, which request no index; a run that aborts without a fetched index has created no asset task and left the object store as it was at its start. *)
C13_StageOrder ==
    /\ handles # <<>> => indexFetched
    /\ indexFetched => clientJar /\ li > Len(minecraft_meta.libs)
    /\ pc \in {"start", "metaFetch", "profile", "client", "clientFetch", "libs",
               "libFetch", "assets", "indexFetch"} => ~indexFetched /\ handles = <<>>
    /\ (pc = "aborted" /\ ~indexFetched) => handles = <<>> /\ objects = atStart

\* The index fetch failed after this run had fetched a manifest with libraries
\* and passed the client and library stages.
C13_Witness ==
    /\ pc = "aborted"
    /\ ~indexFetched
    /\ metaStatus = 200
    /\ minecraft_meta.kind = "manifest"
    /\ li > Len(minecraft_meta.libs)
    /\ clientJar
    /\ \E p \in LibPaths : libFiles[p]
    /\ handles = <<>>

(* C14: as claimed: after an error in an individual asset task the run does not reach its final step. *)
C14_FailFastEverywhere ==
    Failed # {} => pc # "done"

(* C14: the program is fail-fast for the requests of its main task only: a manifest, client, library or asset-index request either ends the process or leaves the document or file it was sent for; when it ends the process no asset task exists, so nothing is left that could start a download, and the ended process takes no step but a new start of the program; an asset task that fails changes neither the main task's position nor any other task. *)
C14_FailFastMainTask ==
    [][/\ pc = "metaFetch" =>
             pc' = "aborted" \/ (pc' = "profile" /\ minecraft_meta'.kind # "absent")
       /\ pc = "clientFetch" => pc' = "aborted" \/ (pc' = "libs" /\ clientJar')
       /\ pc = "libFetch" =>
             pc' = "aborted" \/ (pc' = "libs" /\ libFiles'[minecraft_meta.libs[li].path])
       /\ pc = "indexFetch" => pc' = "aborted" \/ (pc' = "assetLoop" /\ indexFile')
       /\ (pc \in {"metaFetch", "clientFetch", "libFetch", "indexFetch"} /\ pc' = "aborted") =>
             handles' = <<>>
       /\ pc = "aborted" => pc' = "start"
       /\ \A t \in DOMAIN handles \cap DOMAIN handles' :
             (handles[t].st # "failed" /\ handles'[t].st = "failed") =>
                /\ pc' = pc
                /\ \A u \in DOMAIN handles \ {t} : handles'[u] = handles[u]]_vars

\* A run that reached its final step although one of its asset tasks failed.
C14_Witness ==
    /\ pc = "done"
    /\ startExe
    /\ Failed # {}

(* C15: every file that exists at an object path holds the complete body fetched for the hash of that path. *)
C15_AtomicObjectWrite ==
    \A p \in ObjectPaths :
        exists(objects[p]) => objects[p][1] \in {"full", "errbody"} /\ objects[p][2] = p

(* C16: a run that reaches the asset stage goes on to nothing but the GET of the asset index, also when the index file exists, unless it panics creating the index directory; the loop over the entries starts only from that request, with the fetched document written to the index path and no task created yet; a task is created only after that. *)
C16_IndexFetchedFresh ==
    [][/\ pc = "assets" => pc' \in {"indexFetch", "aborted"}
       /\ (pc # "assetLoop" /\ pc' = "assetLoop") =>
             pc = "indexFetch" /\ indexFile' /\ indexFetched' /\ handles' = <<>>
       /\ Len(handles') > Len(handles) => indexFetched /\ indexFile]_vars

\* A run that started with an object on disk, hence with the index file of an
\* earlier run, has fetched the index again and is about to create its tasks.
C16_Witness ==
    /\ pc = "assetLoop"
    /\ indexFetched
    /\ indexFile
    /\ handles = <<>>
    /\ \E p \in ObjectPaths : exists(atStart[p])

(* C17: a request for the client is in flight only while client.jar is absent, and a request for a library entry only while the entry passes the platform filter and its artifact path is absent; the writes of these files happen in those states only, so an existing file is neither requested nor rewritten. *)
C17_DownloadOnlyIfAbsent ==
    /\ pc = "clientFetch" => ~clientJar
    /\ pc = "libFetch" =>
          LET library_entry == minecraft_meta.libs[li]
          IN  ~libFiles[library_entry.path] /\ ~skipped_by_rules(library_entry)

\* A run that started with an object on disk, hence after a run that had its
\* client and libraries, is past both stages: it skipped the jar and every library.
C17_Witness ==
    /\ pc = "assets"
    /\ \E p \in ObjectPaths : exists(atStart[p])
    /\ clientJar
    /\ \E i \in DOMAIN minecraft_meta.libs : libFiles[minecraft_meta.libs[i].path]

(* C19: when create_profile is at or past the copy of start.exe, client.jar exists and so does the artifact file of every library entry that passes the platform filter. *)
C19_CopyOnlyWhenComplete ==
    pc \in {"copy", "done"} =>
        /\ clientJar
        /\ \A i \in DOMAIN minecraft_meta.libs :
              LET library_entry == minecraft_meta.libs[i]
              IN  ~skipped_by_rules(library_entry) => libFiles[library_entry.path]

C19_Witness ==
    /\ pc = "done"
    /\ startExe
    /\ clientJar
    /\ \E i, j \in DOMAIN minecraft_meta.libs :
          /\ skipped_by_rules(minecraft_meta.libs[i])
          /\ ~libFiles[minecraft_meta.libs[i].path]
          /\ ~skipped_by_rules(minecraft_meta.libs[j])
          /\ libFiles[minecraft_meta.libs[j].path]

(* C20: the cache holds nothing but a manifest that came with a 2xx status: a response with another status, or with a body that is not a manifest, leaves no complete cache file. *)
C20_FailedResolutionNotCached ==
    /\ metaFile.kind \in {"absent", "manifest", "partial"}
    /\ metaStatus = 500 => metaFile.kind \in {"absent", "partial"}

\* download_assets has returned with a task spawned for every entry and every task terminal.
C18_AllEnded ==
    /\ pc = "copy"
    /\ Len(handles) = Len(assetIndex)
    /\ \A t \in Tasks : terminal(handles[t])

(* C18: under fair scheduling, with every request ending in a response or an error, download_assets, once in its loop, returns with a task spawned for every entry and every task terminal. *)
C18_AlwaysReturns ==
    (pc = "assetLoop") ~> C18_AllEnded

(* What the code keeps of C18: under fair scheduling, with every request ending in a response or an error, download_assets, once in its loop, either returns with a task spawned for every entry and every task terminal, or the main task panics in the loop and the process ends; once the loop is over nothing but that return ends it, and a waiting task always gets a permit, because a task gives its permit back when it fails as when it succeeds; six tasks compete for the five permits. *)
C18_EveryTaskEnds ==
    /\ running ~> (C18_AllEnded \/ pc = "aborted")
    /\ [][pc = "join" => pc' \in {"join", "copy"}]_vars

\* Five tasks have failed and the sixth, which had to wait for one of their permits, has ended.
C18_Witness ==
    /\ pc = "copy"
    /\ Cardinality(Failed) >= SemaphorePermits
    /\ Cardinality(Tasks) > SemaphorePermits
    /\ \A t \in Tasks : terminal(handles[t])

====
